---- MODULE Spec2Model ----
(***************************************************************************)
(* Model of advancedbeam.py: a single-form Streamlit page around the       *)
(* indeterminatebeam engine.  One script run is one action.  Positions are *)
(* integers in units of 0.2 mm (5 units per millimetre), so that rounding  *)
(* to 3 decimals of a metre never meets a tie.  A table cell is <<>> when  *)
(* it is missing (None / NaN) and <<v>> when it holds v; a missing         *)
(* selectbox cell is the string "None".                                    *)
(***************************************************************************)
EXTENDS Integers, Sequences, FiniteSets, TLC

VARIABLES
    form,             \* browser-side contents of the form "beam_form"
    cacheSupports,    \* st.session_state["supports_df"]: <<>> absent, <<table>>
    cacheLoads,       \* st.session_state["loads_df"]:    <<>> absent, <<table>>
    run,              \* what the last script run did and displayed
    coincidentPolicy, \* the engine's fixed answer for coincident supports
    lastGood,         \* history: tables of the latest successful submission
    remembered        \* history: one earlier submission, kept for comparison

vars == <<form, cacheSupports, cacheLoads, run, coincidentPolicy, lastGood, remembered>>

--------------------------------------------------------------------------
(* Bounds of the model *)
MaxSupportRows == 2
MaxLoadRows == 2

(* Constants of the program *)
DEFAULT_L == 30000      \* 6.0 m
DEFAULT_E == 200        \* 200e9 Pa, in GPa
DEFAULT_I == 905        \* 9.05e-6 m^4, in 1e-8 m^4
DEFAULT_MAGNITUDE == -10000

None == <<>>
Some(v) == <<v>>
notna(c) == c # <<>>

DEFAULT_SUPPORTS ==
    << [x |-> Some(0), type |-> "Fixed"],
       [x |-> Some(DEFAULT_L), type |-> "Fixed"] >>

DEFAULT_LOADS ==
    << [kind |-> "Point Load", magnitude |-> Some(DEFAULT_MAGNITUDE),
        x |-> Some(DEFAULT_L \div 2), x_end |-> None] >>

\* mutant: a pin mapped to the tuple of a fixed support
SUPPORT_MAP_PinFixed(type) ==
    CASE type = "Fixed"  -> <<1, 1, 1>>
      [] type = "Pin"    -> <<1, 1, 1>>
      [] type = "Roller" -> <<0, 1, 0>>

SUPPORT_MAP(type) ==
    CASE type = "Fixed"  -> <<1, 1, 1>>
      [] type = "Pin"    -> <<1, 1, 0>>
      [] type = "Roller" -> <<0, 1, 0>>

SupportTypes == {"Fixed", "Pin", "Roller"}
LoadKinds == {"Point Load", "UDL", "Torque"}

--------------------------------------------------------------------------
(* The engine (package indeterminatebeam), as the specification states it *)

NoBeam ==
    [constructed |-> FALSE, err |-> "none", length |-> 0, E |-> 0, I |-> 0,
     supports |-> <<>>, loads |-> <<>>, analysed |-> FALSE]

Raise(b, e) == [b EXCEPT !.err = e]

Beam(length, E, I) ==
    IF length <= 0 \/ E <= 0 \/ I <= 0
    THEN Raise(NoBeam, "InvalidGeometry")
    ELSE [NoBeam EXCEPT !.constructed = TRUE, !.length = length, !.E = E, !.I = I]

Support(position, restraint) == [position |-> position, restraint |-> restraint]

PointLoadV(mag, x0) == [type |-> "PointLoadV", magnitude |-> mag, start |-> x0, end |-> x0]
UDLV(mag, x0, xe) == [type |-> "UDLV", magnitude |-> mag, start |-> x0, end |-> xe]
PointTorque(mag, x0) == [type |-> "PointTorque", magnitude |-> mag, start |-> x0, end |-> x0]

OnSpan(b, x) == 0 <= x /\ x <= b.length

add_supports(b, s) ==
    IF ~OnSpan(b, s.position)
    THEN Raise(b, "InvalidPosition")
    ELSE [b EXCEPT !.supports = Append(@, s)]

add_loads(b, l) ==
    IF ~OnSpan(b, l.start) \/ ~OnSpan(b, l.end) \/ l.start > l.end
    THEN Raise(b, "InvalidPosition")
    ELSE [b EXCEPT !.loads = Append(@, l)]

RECURSIVE SumRestraints(_)
SumRestraints(ss) ==
    IF ss = <<>> THEN 0
    ELSE ss[1].restraint[1] + ss[1].restraint[2] + ss[1].restraint[3]
         + SumRestraints(Tail(ss))

Redundancy(ss) == SumRestraints(ss) - 3

Coincident(ss) ==
    \E i, j \in 1..Len(ss) : i < j /\ ss[i].position = ss[j].position

RigidBodyRestrained(ss) ==
    /\ \E i \in 1..Len(ss) : ss[i].restraint[1] = 1
    /\ \E i \in 1..Len(ss) : ss[i].restraint[2] = 1
    /\ \/ \E i \in 1..Len(ss) : ss[i].restraint[3] = 1
       \/ \E i, j \in 1..Len(ss) :
             /\ ss[i].restraint[2] = 1 /\ ss[j].restraint[2] = 1
             /\ ss[i].position # ss[j].position

analyse(b, policy) ==
    IF Redundancy(b.supports) < 0 THEN Raise(b, "UnstableStructure")
    ELSE IF Coincident(b.supports) /\ policy = "SingularSystem"
         THEN Raise(b, "SingularSystem")
    ELSE IF ~Coincident(b.supports) /\ ~RigidBodyRestrained(b.supports)
         THEN Raise(b, "UnstableStructure")
    ELSE [b EXCEPT !.analysed = TRUE]

--------------------------------------------------------------------------
(* The script *)

\* st.session_state.get("supports_df", DEFAULT_SUPPORTS)
SeedSupports == IF cacheSupports = <<>> THEN DEFAULT_SUPPORTS ELSE cacheSupports[1]
SeedLoads == IF cacheLoads = <<>> THEN DEFAULT_LOADS ELSE cacheLoads[1]

\* what the widgets return in a script run
supports_df == form.supports
loads_df == form.loads

\* supports_df.dropna()
SupportRowComplete(row) == notna(row.x) /\ row.type # "None"
DropNaSupports(df) == SelectSeq(df, SupportRowComplete)

\* loads_df.dropna(subset=["kind", "magnitude", "x"])
LoadRowComplete(row) == row.kind # "None" /\ notna(row.magnitude) /\ notna(row.x)
DropNaLoads(df) == SelectSeq(df, LoadRowComplete)

\* mutant: a position left of the span is moved to its start
SupportOfClamped(row) ==
    Support(IF row.x[1] < 0 THEN 0 ELSE row.x[1], SUPPORT_MAP(row.type))

\* Support(float(row["x"]), SUPPORT_MAP[row["type"]])
SupportOf(row) == Support(row.x[1], SUPPORT_MAP(row.type))

\* mutant: the chain on kind without its Torque branch
LoadsOfNoTorque(row) ==
    LET mag == row.magnitude[1]
        x0 == row.x[1]
    IN  IF row.kind = "Point Load" THEN << PointLoadV(mag, x0) >>
        ELSE IF row.kind = "UDL"
             THEN LET xe == IF notna(row.x_end) THEN row.x_end[1] ELSE x0
                  IN  << UDLV(mag, x0, xe) >>
        ELSE << >>

\* the if / elif chain on kind
LoadsOf(row) ==
    LET mag == row.magnitude[1]
        x0 == row.x[1]
    IN  IF row.kind = "Point Load" THEN << PointLoadV(mag, x0) >>
        ELSE IF row.kind = "UDL"
             THEN LET xe == IF notna(row.x_end) THEN row.x_end[1] ELSE x0
                  IN  << UDLV(mag, x0, xe) >>
        ELSE IF row.kind = "Torque" THEN << PointTorque(mag, x0) >>
        ELSE << >>

\* an exception raised by a call ends the script run: no later call is made
RECURSIVE AddSupportRows(_, _)
AddSupportRows(b, rows) ==
    IF rows = <<>> \/ b.err # "none" THEN b
    ELSE AddSupportRows(add_supports(b, SupportOf(rows[1])), Tail(rows))

RECURSIVE AddLoadList(_, _)
AddLoadList(b, ls) ==
    IF ls = <<>> \/ b.err # "none" THEN b
    ELSE AddLoadList(add_loads(b, ls[1]), Tail(ls))

RECURSIVE AddLoadRows(_, _)
AddLoadRows(b, rows) ==
    IF rows = <<>> \/ b.err # "none" THEN b
    ELSE AddLoadRows(AddLoadList(b, LoadsOf(rows[1])), Tail(rows))

\* mutant: a non-positive modulus replaced by the default
BuildBeamDefaulting(f) == Beam(f.length, IF f.E <= 0 THEN DEFAULT_E ELSE f.E, f.I)

\* beam = Beam(length, E=E, I=I)
BuildBeam(f) == Beam(f.length, f.E, f.I)

\* mutant: the loop runs over the table the editor was seeded with
IteratedSupportsStale == DropNaSupports(SeedSupports)

\* the tables the two loops iterate
IteratedSupports == DropNaSupports(supports_df)
IteratedLoads == DropNaLoads(loads_df)

AnalysedBeam ==
    LET b0 == BuildBeam(form)
        b1 == AddSupportRows(b0, IteratedSupports)
        b2 == AddLoadRows(b1, IteratedLoads)
    IN  IF b2.err # "none" THEN b2 ELSE analyse(b2, coincidentPolicy)

\* round(s._position, 3), in millimetres
Round3(p) == (p + 2) \div 5

\* {f"{round(s._position, 3)} m": beam.get_reaction(i) for i, s in enumerate(beam._supports)}
\* a dict: a later support with the same key replaces the earlier entry
ReactionSummary(ss) ==
    { <<Round3(ss[i].position), i>> : i \in
        { i \in 1..Len(ss) :
            \A j \in 1..Len(ss) :
                Round3(ss[j].position) = Round3(ss[i].position) => j <= i } }

\* a run in which the form was not submitted: only st.info is shown
NoRun ==
    [submitted |-> FALSE, input |-> form, seedSupports |-> SeedSupports,
     seedLoads |-> SeedLoads, beam |-> NoBeam,
     plots |-> FALSE, summary |-> {}, info |-> TRUE]

SubmittedRun ==
    LET b == AnalysedBeam
    IN  [submitted |-> TRUE, input |-> form, seedSupports |-> SeedSupports,
         seedLoads |-> SeedLoads, beam |-> b,
         plots |-> b.analysed,
         summary |-> IF b.analysed THEN ReactionSummary(b.supports) ELSE {},
         info |-> FALSE]

\* the session-state writes of a submitted run
CacheWrite ==
    /\ cacheSupports' = Some(supports_df)
    /\ cacheLoads' = Some(loads_df)

\* History: the tables of the latest submission whose analysis succeeded
RecordGood(r) ==
    IF r.beam.analysed
    THEN lastGood' = [supports |-> Some(r.input.supports), loads |-> Some(r.input.loads)]
    ELSE UNCHANGED lastGood

Remember(r) ==
    \/ remembered' = Some(r)
    \/ UNCHANGED remembered

\* The user clicks "Analyse Beam": the script runs with submitted = True
Submit ==
    /\ CacheWrite
    /\ run' = SubmittedRun
    /\ RecordGood(SubmittedRun)
    /\ Remember(SubmittedRun)
    /\ UNCHANGED <<form, coincidentPolicy>>

\* mutant: the session-state writes placed outside "if submitted"
RerunCaching ==
    /\ run' = NoRun
    /\ CacheWrite
    /\ UNCHANGED <<form, coincidentPolicy, lastGood, remembered>>

\* The script runs with submitted = False (first load, manual rerun)
Rerun ==
    /\ run' = NoRun
    /\ UNCHANGED <<form, cacheSupports, cacheLoads, coincidentPolicy, lastGood, remembered>>

--------------------------------------------------------------------------
(* What a user can put in the form *)

\* number_input: length has min_value 0.1 (500 units); E and I have no minimum
MIN_LENGTH == 500

SeqsUpTo(S, n) == UNION { [1..k -> S] : k \in 0..n }

GeometryInputs ==
    { <<DEFAULT_L, DEFAULT_E, DEFAULT_I>>, <<MIN_LENGTH, DEFAULT_E, DEFAULT_I>>,
      <<DEFAULT_L, 0, DEFAULT_I>>, <<DEFAULT_L, DEFAULT_E, -1>> }

\* rows of the supports editor: every complete row, and one row for each cell
\* that can be missing
SupportXs == { -1, 0, 1, DEFAULT_L }
SupportRows ==
    [x : {Some(p) : p \in SupportXs}, type : SupportTypes]
    \cup { [x |-> None, type |-> "Fixed"], [x |-> Some(0), type |-> "None"] }
SupportTables == SeqsUpTo(SupportRows, MaxSupportRows)

\* rows of the loads editor: (x, x_end) placements for every kind, and one row
\* for each required cell that can be missing
Mid == DEFAULT_L \div 2
LoadPlacements ==
    { <<Some(Mid), None>>, <<Some(Mid), Some(Mid)>>, <<Some(Mid), Some(DEFAULT_L)>>,
      <<Some(Mid), Some(0)>>, <<Some(-1), None>> }
LoadRows ==
    { [kind |-> k, magnitude |-> Some(DEFAULT_MAGNITUDE), x |-> p[1], x_end |-> p[2]] :
        k \in LoadKinds, p \in LoadPlacements }
    \cup { [kind |-> "None", magnitude |-> Some(DEFAULT_MAGNITUDE),
            x |-> Some(Mid), x_end |-> None],
           [kind |-> "UDL", magnitude |-> None, x |-> Some(Mid), x_end |-> Some(DEFAULT_L)],
           [kind |-> "Torque", magnitude |-> Some(DEFAULT_MAGNITUDE),
            x |-> None, x_end |-> None] }
LoadTables == SeqsUpTo(LoadRows, MaxLoadRows)

FormOf(g, s, l) == [length |-> g[1], E |-> g[2], I |-> g[3], supports |-> s, loads |-> l]

PinRoller ==
    << [x |-> Some(0), type |-> "Pin"], [x |-> Some(DEFAULT_L), type |-> "Roller"] >>
OneRoller == << [x |-> Some(0), type |-> "Roller"] >>

\* every supports table with the default loads, and every loads table on a few beams
FormInputs ==
    { FormOf(g, s, DEFAULT_LOADS) : g \in GeometryInputs, s \in SupportTables }
    \cup { FormOf(g, s, l) : g \in GeometryInputs,
                             s \in {DEFAULT_SUPPORTS, PinRoller, OneRoller},
                             l \in LoadTables }

OffSpanLoad ==
    << [kind |-> "Point Load", magnitude |-> Some(DEFAULT_MAGNITUDE),
        x |-> Some(DEFAULT_L + 1), x_end |-> None] >>

SessionInputs ==
    { FormOf(g, s, l) :
        g \in { <<DEFAULT_L, DEFAULT_E, DEFAULT_I>>, <<DEFAULT_L, 0, DEFAULT_I>> },
        s \in { DEFAULT_SUPPORTS, OneRoller },
        l \in { DEFAULT_LOADS, OffSpanLoad } }

DefaultForm == FormOf(<<DEFAULT_L, DEFAULT_E, DEFAULT_I>>, DEFAULT_SUPPORTS, DEFAULT_LOADS)

\* the first script run of a session
InitialRun ==
    [submitted |-> FALSE, input |-> DefaultForm, seedSupports |-> DEFAULT_SUPPORTS,
     seedLoads |-> DEFAULT_LOADS, beam |-> NoBeam,
     plots |-> FALSE, summary |-> {}, info |-> TRUE]

Policies == {"SingularSystem", "Resolved"}

\* a fresh session: nothing cached, the editors show the defaults, the script
\* has run once without a submission
Init ==
    /\ cacheSupports = <<>>
    /\ cacheLoads = <<>>
    /\ form = FormOf(<<DEFAULT_L, DEFAULT_E, DEFAULT_I>>, SeedSupports, SeedLoads)
    /\ run = InitialRun
    /\ coincidentPolicy \in Policies
    /\ lastGood = [supports |-> None, loads |-> None]
    /\ remembered = <<>>

\* a fresh session in which the user has filled in the form
InitForm ==
    /\ cacheSupports = <<>>
    /\ cacheLoads = <<>>
    /\ form \in FormInputs
    /\ run = InitialRun
    /\ coincidentPolicy \in Policies
    /\ lastGood = [supports |-> None, loads |-> None]
    /\ remembered = <<>>

\* The user edits cells of the form; nothing reaches the script before a submit
Edit ==
    /\ \E f \in SessionInputs : f # form /\ form' = f
    /\ UNCHANGED <<cacheSupports, cacheLoads, run, coincidentPolicy, lastGood, remembered>>

\* The browser page is reloaded: a new session with an empty session state
NewSession ==
    /\ cacheSupports' = <<>>
    /\ cacheLoads' = <<>>
    /\ form' = DefaultForm
    /\ run' = InitialRun
    /\ lastGood' = [supports |-> None, loads |-> None]
    /\ UNCHANGED <<coincidentPolicy, remembered>>

Next == Submit \/ Rerun

NextSession == Edit \/ Submit \/ Rerun \/ NewSession

Spec == InitForm /\ [][Next]_vars

SpecSession == Init /\ [][NextSession]_vars

--------------------------------------------------------------------------
(* Properties *)

Displayed(r) == r.plots \/ r.summary # {}

Failed(r) == r.submitted /\ ~r.beam.analysed

GeometryValid(f) == f.length > 0 /\ f.E > 0 /\ f.I > 0

InSpan(f, x) == 0 <= x /\ x <= f.length

\* a row that survives dropna and whose position is off the span, or a UDL row
\* whose extent is off the span or reversed
BadSupportRow(f, row) ==
    notna(row.x) /\ row.type # "None" /\ ~InSpan(f, row.x[1])

BadLoadRow(f, row) ==
    /\ row.kind # "None" /\ notna(row.magnitude) /\ notna(row.x)
    /\ \/ ~InSpan(f, row.x[1])
       \/ /\ row.kind = "UDL" /\ notna(row.x_end)
          /\ (row.x_end[1] < row.x[1] \/ ~InSpan(f, row.x_end[1]))

HasBadPosition(f) ==
    \/ \E i \in 1..Len(f.supports) : BadSupportRow(f, f.supports[i])
    \/ \E i \in 1..Len(f.loads) : BadLoadRow(f, f.loads[i])

\* the positions on the beam are those of the rows, in order, unaltered
PositionsUnaltered(r) ==
    LET srows == DropNaSupports(r.input.supports)
        lrows == DropNaLoads(r.input.loads)
    IN  /\ Len(r.beam.supports) <= Len(srows)
        /\ \A i \in 1..Len(r.beam.supports) : r.beam.supports[i].position = srows[i].x[1]
        /\ Len(r.beam.loads) <= Len(lrows)
        /\ \A i \in 1..Len(r.beam.loads) : r.beam.loads[i].start = lrows[i].x[1]

\* C1: after a failed submission the cached tables are still those of the latest
\* successful submission (absent when none succeeded).
C1_LastGoodSurvives ==
    Failed(run) =>
        /\ cacheSupports = lastGood.supports
        /\ cacheLoads = lastGood.loads

\* C2 as stated: a submission with a position off the span, or a reversed UDL
\* extent, ends in InvalidPosition, is not analysed, displays nothing, and no
\* position is altered.
C2_InvalidPositionRejected ==
    (run.submitted /\ HasBadPosition(run.input)) =>
        /\ run.beam.err = "InvalidPosition"
        /\ ~run.beam.analysed
        /\ ~Displayed(run)
        /\ PositionsUnaltered(run)

\* C2 amended: such a submission always fails undisplayed with positions
\* unaltered; the error is InvalidPosition when length, E and I are positive,
\* and InvalidGeometry (raised first, at construction) otherwise.
C2_BadPositionFails ==
    (run.submitted /\ HasBadPosition(run.input)) =>
        /\ run.beam.err = IF GeometryValid(run.input) THEN "InvalidPosition"
                          ELSE "InvalidGeometry"
        /\ ~run.beam.analysed
        /\ ~Displayed(run)
        /\ PositionsUnaltered(run)

C2_Witness ==
    /\ run.submitted /\ HasBadPosition(run.input) /\ GeometryValid(run.input)
    /\ run.beam.err = "InvalidPosition"
    /\ Len(run.beam.supports) = 2
    /\ \E i \in 1..Len(run.input.loads) :
          run.input.loads[i].kind = "UDL" /\ BadLoadRow(run.input, run.input.loads[i])

\* C3: a submission whose length, E or I is not strictly positive fails with
\* InvalidGeometry; no support or load is added, nothing is analysed or shown.
C3_InvalidGeometryRejected ==
    (run.submitted /\ ~GeometryValid(run.input)) =>
        /\ run.beam.err = "InvalidGeometry"
        /\ ~run.beam.constructed
        /\ run.beam.supports = <<>> /\ run.beam.loads = <<>>
        /\ ~run.beam.analysed
        /\ ~Displayed(run)

C3_Witness ==
    /\ run.submitted /\ run.input.E <= 0 /\ run.input.I > 0
    /\ run.beam.err = "InvalidGeometry"
    /\ DropNaSupports(run.input.supports) # <<>>

\* the restraint count the claim assigns to a support type
ClaimRestraints(type) ==
    CASE type = "Fixed" -> 3 [] type = "Pin" -> 2 [] type = "Roller" -> 1

RECURSIVE ClaimRestraintSum(_)
ClaimRestraintSum(rows) ==
    IF rows = <<>> THEN 0
    ELSE (IF notna(rows[1].x) /\ rows[1].type # "None"
          THEN ClaimRestraints(rows[1].type) ELSE 0)
         + ClaimRestraintSum(Tail(rows))

ClaimRedundancy(f) == ClaimRestraintSum(f.supports) - 3

\* C4 as stated: whenever the redundancy of the submitted support rows is
\* negative the submission fails with UnstableStructure and displays nothing.
C4_UnstableRejected ==
    (run.submitted /\ ClaimRedundancy(run.input) < 0) =>
        /\ run.beam.err = "UnstableStructure"
        /\ ~Displayed(run)

\* C4 amended: whenever that redundancy is negative the submission fails and
\* displays nothing; the error is UnstableStructure when length, E, I and every
\* position are valid, and the earlier InvalidGeometry or InvalidPosition if not.
C4_NegativeRedundancyFails ==
    (run.submitted /\ ClaimRedundancy(run.input) < 0) =>
        /\ ~run.beam.analysed
        /\ ~Displayed(run)
        /\ run.beam.err =
             IF ~GeometryValid(run.input) THEN "InvalidGeometry"
             ELSE IF HasBadPosition(run.input) THEN "InvalidPosition"
             ELSE "UnstableStructure"

C4_Witness ==
    /\ run.submitted /\ ClaimRedundancy(run.input) < 0
    /\ run.beam.err = "UnstableStructure"
    /\ Len(run.beam.supports) = 1
    /\ run.beam.supports[1].restraint = <<1, 1, 0>>

\* C5: no distributed load of zero width (start = end) is ever on the beam.
C5_NoZeroWidthUDL ==
    \A i \in 1..Len(run.beam.loads) :
        run.beam.loads[i].type = "UDLV" => run.beam.loads[i].start < run.beam.loads[i].end

\* C6: a script run without a submission builds and shows nothing but the hint,
\* and the cached tables change only in a run that was submitted (to the tables
\* submitted) or when a new session starts.
C6_CommitOnlyOnSubmit ==
    [][ /\ ~run'.submitted =>
              /\ run'.beam = NoBeam
              /\ ~Displayed(run') /\ run'.info
        /\ <<cacheSupports, cacheLoads>>' # <<cacheSupports, cacheLoads>> =>
              \/ /\ run'.submitted
                 /\ cacheSupports' = Some(run'.input.supports)
                 /\ cacheLoads' = Some(run'.input.loads)
              \/ cacheSupports' = <<>> /\ cacheLoads' = <<>> ]_vars

C6_Witness ==
    /\ ~run.submitted
    /\ run.input = form
    /\ cacheSupports # <<>>
    /\ cacheSupports # Some(form.supports)
    /\ cacheLoads # Some(form.loads)

ClaimLoadType(kind) ==
    CASE kind = "Point Load" -> "PointLoadV"
      [] kind = "UDL" -> "UDLV"
      [] kind = "Torque" -> "PointTorque"

ReachedAnalyse(r) ==
    r.submitted /\ (r.beam.analysed \/ r.beam.err \in {"UnstableStructure", "SingularSystem"})

\* C9: on a submission that reaches analyse(), the loads on the beam are, in
\* table order, one per row whose kind, magnitude and x are present, of the
\* row's kind, magnitude and position; rows missing one of those add none.
C9_EveryLoadAdded ==
    ReachedAnalyse(run) =>
        LET rows == SelectSeq(run.input.loads,
                        LAMBDA row : row.kind # "None" /\ notna(row.magnitude) /\ notna(row.x))
        IN  /\ Len(run.beam.loads) = Len(rows)
            /\ \A i \in 1..Len(rows) :
                  /\ run.beam.loads[i].type = ClaimLoadType(rows[i].kind)
                  /\ run.beam.loads[i].magnitude = rows[i].magnitude[1]
                  /\ run.beam.loads[i].start = rows[i].x[1]

C9_Witness ==
    /\ ReachedAnalyse(run)
    /\ Len(run.input.loads) = 2 /\ Len(run.beam.loads) = 2
    /\ run.beam.loads[1].type = "PointTorque"
    /\ run.beam.loads[2].type = "UDLV"

====
